---- MODULE Spec2Model ----
(***************************************************************************)
(* The crisis detection and escalation pipeline of the mental-wellness     *)
(* application: utils/crisis_detection.py (CrisisDetector), the oracle     *)
(* adapter of utils/gemini_client.py (GeminiClient) and the session store  *)
(* of utils/data_manager.py.                                               *)
(*                                                                         *)
(* One run of the model is one session: the user sends up to MaxEvals      *)
(* messages; each is analysed (keyword layer, oracle layer, fusion) and    *)
(* the verdict is passed to trigger_crisis_intervention.                   *)
(***************************************************************************)
EXTENDS Integers, Sequences, FiniteSets, TLC

\* Longest message, in words.
MaxLen == 3
\* Messages analysed in one session.
MaxEvals == 3
\* Chat messages saved in one session.
MaxHistory == 3

VARIABLES
    pc,             \* where the conversational turn stands
    gemini_client,  \* CrisisDetector.gemini_client: "client" or "None"
    text,           \* argument of the analyze_text_for_crisis call in progress
    oracle,         \* what the oracle did for the current message
    keyword_risk,   \* Layer 1 result
    ai_analysis,    \* Layer 2 result (a Python value)
    verdict,        \* what analyze_text_for_crisis returned
    exc,            \* exception that reached the caller, "none" if none
    directive,      \* resource bundle rendered by trigger_crisis_intervention
    returned,       \* <<value>> once trigger_crisis_intervention returned it
    store_failed,   \* the session store refused the append of this turn
    crisis_events,  \* st.session_state.crisis_events, the audit log
    n_evals,        \* messages analysed so far
    follow_up,      \* last get_crisis_follow_up_message call of the turn
    chat_history,   \* st.session_state.chat_history
    conversation    \* last get_conversation_history call since the last save

vars == <<pc, gemini_client, text, oracle, keyword_risk, ai_analysis, verdict,
          exc, directive, returned, store_failed, crisis_events, n_evals,
          follow_up, chat_history, conversation>>

\* The variables of the chat store, and those of the crisis pipeline.
chat_vars == <<chat_history, conversation>>
crisis_vars == <<pc, gemini_client, text, oracle, keyword_risk, ai_analysis, verdict,
                 exc, directive, returned, store_failed, crisis_events, n_evals,
                 follow_up>>

(***************************************************************************)
(* Python values, tagged with their type.                                  *)
(***************************************************************************)
PyNone == [type |-> "NoneType"]
PyStr(s) == [type |-> "str", str |-> s]
PyInt(n) == [type |-> "int", int |-> n]
PyList(items) == [type |-> "list", items |-> items]
PyDict(entries) == [type |-> "dict", entries |-> entries]

\* The result of a call: a returned value, or an exception that escaped it.
Return(v) == [raised |-> "none", value |-> v]
Raise(e) == [raised |-> e]

(***************************************************************************)
(* str.lower() on the strings of the model: message words and oracle       *)
(* labels.  Every string that holds an upper-case letter is listed.        *)
(***************************************************************************)
lower(s) ==
    CASE s = "Sad" -> "sad"
      [] s = "LOW" -> "low"
      [] s = "Low" -> "low"
      [] s = "MODERATE" -> "moderate"
      [] s = "HIGH" -> "high"
      [] s = "High" -> "high"
      [] s = "CRITICAL" -> "critical"
      [] s = "Critical" -> "critical"
      [] s = "SEVERE" -> "severe"
      [] OTHER -> s

(***************************************************************************)
(* Messages.  A message is the sequence of its words (maximal runs of word *)
(* characters, which is where the pattern's \b boundaries fall).           *)
(***************************************************************************)
Words == {"kill", "myself", "cutting", "hopeless", "sad", "Sad"}

RECURSIVE SeqsUpTo(_, _)
SeqsUpTo(S, n) ==
    IF n = 0 THEN {<<>>}
    ELSE LET shorter == SeqsUpTo(S, n - 1)
         IN  shorter \cup {Append(t, w) : t \in shorter, w \in S}

Texts == SeqsUpTo(Words, MaxLen)

text_lower(t) == [i \in 1..Len(t) |-> lower(t[i])]

(***************************************************************************)
(* The lexicon of data/crisis_keywords.py: categories in the dictionary's  *)
(* order, each with its keyword phrases, and the severity weights.  The    *)
(* last category has no configured weight.                                 *)
(***************************************************************************)
CRISIS_KEYWORDS ==
    << [category |-> "suicidal_ideation", keywords |-> << <<"kill", "myself">> >>],
       [category |-> "self_harm",         keywords |-> << <<"cutting">> >>],
       [category |-> "hopelessness",      keywords |-> << <<"hopeless">> >>],
       [category |-> "distress",          keywords |-> << <<"sad">> >>] >>

SEVERITY_WEIGHTS ==
    [suicidal_ideation |-> 10, self_harm |-> 6, hopelessness |-> 3]

\* self.severity_weights.get(category, 1)
severity_weight(category) ==
    IF category \in DOMAIN SEVERITY_WEIGHTS THEN SEVERITY_WEIGHTS[category] ELSE 1

\* A search for the first word of the phrase alone.
re_search_mut_first_word(keyword, lowered) ==
    \E i \in 1..Len(lowered) : lowered[i] = keyword[1]

\* re.search(r'\b' + re.escape(keyword) + r'\b', text_lower): the phrase
\* occurs somewhere in the lowered message, on word boundaries.
re_search(keyword, lowered) ==
    \E i \in 1..(Len(lowered) - Len(keyword) + 1) :
        SubSeq(lowered, i, i + Len(keyword) - 1) = keyword

\* The (keyword, category) pairs in the order the two nested loops visit them.
RECURSIVE scan_order(_)
scan_order(categories) ==
    IF categories = <<>> THEN <<>>
    ELSE LET c == Head(categories)
         IN  [i \in 1..Len(c.keywords) |-> <<c.keywords[i], c.category>>]
             \o scan_order(Tail(categories))

\* The thresholds that turn the total score into a risk level.
risk_level_mut_strict(total_score) ==
    IF total_score > 10 THEN "critical"
    ELSE IF total_score > 6 THEN "high"
    ELSE IF total_score > 3 THEN "moderate"
    ELSE "low"

risk_level_of_score(total_score) ==
    IF total_score >= 10 THEN "critical"
    ELSE IF total_score >= 6 THEN "high"
    ELSE IF total_score >= 3 THEN "moderate"
    ELSE "low"

\* The loop body, over the pairs still to visit.
RECURSIVE scan_keywords(_, _, _, _)
scan_keywords(pairs, lowered, detected_keywords, total_score) ==
    IF pairs = <<>>
    THEN [detected_keywords |-> detected_keywords, total_score |-> total_score]
    ELSE LET keyword == Head(pairs)[1]
             category == Head(pairs)[2]
         IN  IF re_search(keyword, lowered)
             THEN scan_keywords(Tail(pairs), lowered,
                                Append(detected_keywords, <<keyword, category>>),
                                total_score + severity_weight(category))
             ELSE scan_keywords(Tail(pairs), lowered, detected_keywords, total_score)

_keyword_based_detection(t) ==
    LET found == scan_keywords(scan_order(CRISIS_KEYWORDS), text_lower(t), <<>>, 0)
    IN  [risk_level |-> risk_level_of_score(found.total_score),
         score |-> found.total_score,
         detected_keywords |-> found.detected_keywords,
         method |-> "keyword_analysis"]

(***************************************************************************)
(* The oracle.  A call to the Language Model Service raises, or returns a  *)
(* response whose .text is a string or None.                               *)
(***************************************************************************)
\* CRISIS_INSTRUCTION: "Risk Levels are: LOW, MODERATE, HIGH, SEVERE."
INSTRUCTION_RISK_LEVELS == <<"LOW", "MODERATE", "HIGH", "SEVERE">>

\* Risk labels an oracle may put in its answer.
OracleLabels == {"LOW", "Low", "MODERATE", "moderate", "HIGH", "High",
                 "CRITICAL", "Critical", "SEVERE", "unknown"}

\* A well-formed assessment object and the JSON text that encodes it.
assessment(label) ==
    PyDict([risk_level |-> PyStr(label),
            keywords_detected |-> PyList(<<"sad">>),
            analysis |-> PyStr("The user expresses distress.")])

assessment_json(label) ==
    "{\"risk_level\": \"" \o label \o
    "\", \"keywords_detected\": [\"sad\"], \"analysis\": \"The user expresses distress.\"}"

\* The JSON documents of the model and the values json.loads gives for them.
JSON_DOCUMENTS ==
    {[text |-> assessment_json(label), value |-> assessment(label)] : label \in OracleLabels}
    \cup
    {[text |-> "[]", value |-> PyList(<<>>)],
     [text |-> "null", value |-> PyNone],
     [text |-> "{\"analysis\": \"The user expresses distress.\"}",
      value |-> PyDict([analysis |-> PyStr("The user expresses distress.")])],
     [text |-> "{\"risk_level\": 3, \"keywords_detected\": []}",
      value |-> PyDict([risk_level |-> PyInt(3), keywords_detected |-> PyList(<<>>)])]}

\* Response texts: every JSON document, and one text that is not JSON.
ResponseTexts ==
    {d.text : d \in JSON_DOCUMENTS} \cup {"I'm sorry, I can't help with that."}

\* What the oracle can do with one request.
OracleOutcomes ==
    {[kind |-> "raised"]}
    \cup {[kind |-> "response", text |-> PyNone]}
    \cup {[kind |-> "response", text |-> PyStr(t)] : t \in ResponseTexts}

\* json.loads(s)
json_loads(s) ==
    IF s.type # "str" THEN Raise("TypeError")
    ELSE LET docs == {d \in JSON_DOCUMENTS : d.text = s.str}
         IN  IF docs = {} THEN Raise("JSONDecodeError")
             ELSE Return((CHOOSE d \in docs : TRUE).value)

\* GeminiClient.analyze_text_for_crisis, given what the oracle did.
GeminiClient_analyze_text_for_crisis(outcome) ==
    IF outcome.kind = "raised" THEN Raise("APIError")
    ELSE LET parsed == json_loads(outcome.text)
         IN  IF parsed.raised = "JSONDecodeError"
             THEN Return(PyDict([risk_level |-> PyStr("MODERATE"),
                                 keywords_detected |-> PyList(<<"system_error">>),
                                 analysis |-> PyStr("Could not parse AI crisis response.")]))
             ELSE parsed

\* The fallback of CrisisDetector.analyze_text_for_crisis when it has no client.
AI_CLIENT_UNAVAILABLE ==
    PyDict([risk_level |-> PyStr("LOW"),
            keywords_detected |-> PyList(<<>>),
            analysis |-> PyStr("AI client unavailable.")])

(***************************************************************************)
(* Layer 3: fusion of the two signals.                                     *)
(***************************************************************************)
\* Risk level hierarchy: critical > high > moderate > low
risk_levels == <<"low", "moderate", "high", "critical">>

\* risk_levels.index(x) inside try/except ValueError: the position of x,
\* or that of "low" when x is not in the list.
level_idx(x) ==
    IF \E i \in 1..Len(risk_levels) : risk_levels[i] = x
    THEN CHOOSE i \in 1..Len(risk_levels) : risk_levels[i] = x
    ELSE CHOOSE i \in 1..Len(risk_levels) : risk_levels[i] = "low"

\* ai_analysis["risk_level"] taken as the oracle wrote it.
ai_risk_level_mut_as_written(ai) ==
    IF ai.type # "dict" THEN Raise("TypeError")
    ELSE IF "risk_level" \notin DOMAIN ai.entries THEN Raise("KeyError")
    ELSE IF ai.entries.risk_level.type # "str" THEN Raise("AttributeError")
    ELSE Return(ai.entries.risk_level.str)

\* ai_analysis["risk_level"].lower(): only ValueError is caught around it.
ai_risk_level_lower(ai) ==
    IF ai.type # "dict" THEN Raise("TypeError")
    ELSE IF "risk_level" \notin DOMAIN ai.entries THEN Raise("KeyError")
    ELSE IF ai.entries.risk_level.type # "str" THEN Raise("AttributeError")
    ELSE Return(lower(ai.entries.risk_level.str))

max_idx(a, b) == IF a >= b THEN a ELSE b

\* The returned dictionary, with intervention required for Critical alone.
fused_verdict_mut_critical_only(combined_level, keyword, ai) ==
    [final_risk_level |-> combined_level,
     keyword_analysis |-> keyword,
     ai_analysis |-> ai,
     requires_intervention |-> combined_level \in {"critical"},
     immediate_crisis |-> combined_level = "critical"]

\* The returned dictionary.
fused_verdict(combined_level, keyword, ai) ==
    [final_risk_level |-> combined_level,
     keyword_analysis |-> keyword,
     ai_analysis |-> ai,
     requires_intervention |-> combined_level \in {"high", "critical"},
     immediate_crisis |-> combined_level = "critical"]

_combine_risk_assessments(keyword, ai) ==
    LET ai_level == ai_risk_level_lower(ai)
    IN  IF ai_level.raised # "none" THEN Raise(ai_level.raised)
        ELSE LET keyword_level_idx == level_idx(keyword.risk_level)
                 ai_level_idx == level_idx(ai_level.value)
                 higher == risk_levels[max_idx(keyword_level_idx, ai_level_idx)]
                 combined_level ==
                     IF keyword.risk_level = "critical" \/ ai_level.value = "critical"
                     THEN "critical"
                     ELSE higher
             IN  Return(fused_verdict(combined_level, keyword, ai))

(***************************************************************************)
(* The session.                                                            *)
(***************************************************************************)
NoText == <<"<no call in progress>">>
NoSignal == [risk_level |-> "<none>"]
NoVerdict == [final_risk_level |-> "<none>"]
NoAnalysis == [type |-> "<none>"]
NoFollowUp == [message |-> "<none>"]
NoConversation == [limit |-> -1]

Init ==
    /\ pc = "idle"
    /\ gemini_client \in {"client", "None"}
    /\ text = NoText
    /\ oracle = [kind |-> "idle"]
    /\ keyword_risk = NoSignal
    /\ ai_analysis = NoAnalysis
    /\ verdict = NoVerdict
    /\ exc = "none"
    /\ directive = "none"
    /\ returned = <<>>
    /\ store_failed = FALSE
    /\ crisis_events = <<>>
    /\ n_evals = 0
    /\ follow_up = NoFollowUp
    /\ chat_history = <<>>
    /\ conversation = NoConversation

\* Layers 2 (once the oracle has acted, or without a client) and 3, up to
\* the return of analyze_text_for_crisis or the exception that leaves it.
finish_analysis(keyword, layer2) ==
    IF layer2.raised # "none"
    THEN /\ ai_analysis' = NoAnalysis
         /\ verdict' = NoVerdict
         /\ exc' = layer2.raised
         /\ pc' = "analysis_raised"
    ELSE LET combined_risk == _combine_risk_assessments(keyword, layer2.value)
         IN  /\ ai_analysis' = layer2.value
             /\ IF combined_risk.raised # "none"
                THEN /\ verdict' = NoVerdict
                     /\ exc' = combined_risk.raised
                     /\ pc' = "analysis_raised"
                ELSE /\ verdict' = combined_risk.value
                     /\ exc' = "none"
                     /\ pc' = "verdict"

\* CrisisDetector.analyze_text_for_crisis(t), up to the oracle call when
\* there is a client, and to its end when there is none.
analyze_text_for_crisis ==
    /\ pc = "idle"
    /\ n_evals < MaxEvals
    /\ \E t \in Texts :
        LET keyword == _keyword_based_detection(t)
        IN  /\ n_evals' = n_evals + 1
            /\ keyword_risk' = keyword
            /\ IF gemini_client = "client"
               THEN /\ text' = t
                    /\ oracle' = [kind |-> "pending"]
                    /\ ai_analysis' = NoAnalysis
                    /\ verdict' = NoVerdict
                    /\ exc' = "none"
                    /\ pc' = "await_oracle"
               ELSE /\ text' = NoText
                    /\ oracle' = [kind |-> "no_client"]
                    /\ finish_analysis(keyword, Return(AI_CLIENT_UNAVAILABLE))
    /\ UNCHANGED <<gemini_client, directive, returned, store_failed, crisis_events,
                   follow_up, chat_vars>>

\* The oracle acts on the pending request and analyze_text_for_crisis
\* runs to its end.
oracle_responds ==
    /\ pc = "await_oracle"
    /\ \E outcome \in OracleOutcomes :
        /\ oracle' = outcome
        /\ finish_analysis(keyword_risk, GeminiClient_analyze_text_for_crisis(outcome))
    /\ text' = NoText
    /\ UNCHANGED <<gemini_client, keyword_risk, directive, returned, store_failed,
                   crisis_events, n_evals, follow_up, chat_vars>>

(***************************************************************************)
(* The intervention controller.                                            *)
(***************************************************************************)
\* DataManager.log_crisis_event(kind) on the audit log `events`: the store
\* appends one record, or the write fails.
log_crisis_event(events, kind, store_ok) ==
    IF store_ok THEN Return(Append(events, [kind |-> kind]))
    ELSE Raise("StoreWriteFailure")

\* st.error(...) with the crisis resources, then the log entry.
_show_immediate_crisis_resources(store_ok) ==
    [directive |-> "immediate_crisis_resources",
     logged |-> log_crisis_event(crisis_events, "immediate", store_ok)]

\* st.warning(...) with the support resources, then the log entry.
_show_support_resources(store_ok) ==
    [directive |-> "support_resources",
     logged |-> log_crisis_event(crisis_events, "support", store_ok)]

\* The two tests in the other order.
show_resources_mut_support_first(risk_assessment, store_ok) ==
    IF risk_assessment.requires_intervention
    THEN _show_support_resources(store_ok)
    ELSE IF risk_assessment.immediate_crisis
    THEN _show_immediate_crisis_resources(store_ok)
    ELSE [directive |-> "none", logged |-> Return(crisis_events)]

\* The if/elif of trigger_crisis_intervention.
show_resources(risk_assessment, store_ok) ==
    IF risk_assessment.immediate_crisis
    THEN _show_immediate_crisis_resources(store_ok)
    ELSE IF risk_assessment.requires_intervention
    THEN _show_support_resources(store_ok)
    ELSE [directive |-> "none", logged |-> Return(crisis_events)]

\* The caller passes the verdict to trigger_crisis_intervention.
trigger_crisis_intervention ==
    /\ pc = "verdict"
    /\ \E store_ok \in BOOLEAN :
        LET shown == show_resources(verdict, store_ok)
        IN  /\ directive' = shown.directive
            /\ IF shown.logged.raised # "none"
               THEN /\ store_failed' = TRUE
                    /\ crisis_events' = crisis_events
                    /\ exc' = shown.logged.raised
                    /\ returned' = <<>>
                    /\ pc' = "intervention_raised"
               ELSE /\ store_failed' = FALSE
                    /\ crisis_events' = shown.logged.value
                    /\ exc' = "none"
                    /\ returned' = <<verdict.requires_intervention>>
                    /\ pc' = "intervened"
    /\ UNCHANGED <<gemini_client, text, oracle, keyword_risk, ai_analysis, verdict,
                   n_evals, follow_up, chat_vars>>

\* The turn ends: the signals, the verdict and what the controller gave back
\* are per-message values and go with it; the audit log stays.
end_turn ==
    /\ pc \in {"analysis_raised", "intervened", "intervention_raised"}
    /\ pc' = "idle"
    /\ text' = NoText
    /\ oracle' = [kind |-> "idle"]
    /\ keyword_risk' = NoSignal
    /\ ai_analysis' = NoAnalysis
    /\ verdict' = NoVerdict
    /\ exc' = "none"
    /\ directive' = "none"
    /\ returned' = <<>>
    /\ store_failed' = FALSE
    /\ follow_up' = NoFollowUp
    /\ UNCHANGED <<gemini_client, crisis_events, n_evals, chat_vars>>

(***************************************************************************)
(* The follow-up message selector.                                         *)
(***************************************************************************)
\* The four canned messages, each by its opening sentence.
FOLLOW_UP_CRITICAL == "I'm really concerned about you right now."
FOLLOW_UP_HIGH == "I can hear that you're struggling right now, and I want you to know that your feelings are valid."
FOLLOW_UP_MODERATE == "It sounds like you're dealing with some difficult feelings."
FOLLOW_UP_DEFAULT == "Thank you for sharing."

\* risk_level == s, for a Python value on the left and a str on the right.
py_eq_str(v, s) == v.type = "str" /\ v.str = s

\* The selector without its last elif.
get_crisis_follow_up_message_mut_no_moderate(risk_level) ==
    IF py_eq_str(risk_level, "critical") THEN FOLLOW_UP_CRITICAL
    ELSE IF py_eq_str(risk_level, "high") THEN FOLLOW_UP_HIGH
    ELSE FOLLOW_UP_DEFAULT

get_crisis_follow_up_message(risk_level) ==
    IF py_eq_str(risk_level, "critical") THEN FOLLOW_UP_CRITICAL
    ELSE IF py_eq_str(risk_level, "high") THEN FOLLOW_UP_HIGH
    ELSE IF py_eq_str(risk_level, "moderate") THEN FOLLOW_UP_MODERATE
    ELSE FOLLOW_UP_DEFAULT

\* Arguments a caller may pass: the four levels, other strings, other values.
FollowUpArguments ==
    {PyStr(l) : l \in {"critical", "high", "moderate", "low", "CRITICAL", "severe", ""}}
    \cup {PyNone, PyInt(3), PyList(<<>>)}

\* After the controller returned, the caller asks for the follow-up message.
select_follow_up ==
    /\ pc = "intervened"
    /\ follow_up = NoFollowUp
    /\ \E risk_level \in FollowUpArguments :
        follow_up' = [risk_level |-> risk_level,
                      message |-> get_crisis_follow_up_message(risk_level)]
    /\ UNCHANGED <<pc, gemini_client, text, oracle, keyword_risk, ai_analysis, verdict,
                   exc, directive, returned, store_failed, crisis_events, n_evals,
                   chat_vars>>

Next ==
    \/ analyze_text_for_crisis
    \/ oracle_responds
    \/ trigger_crisis_intervention
    \/ select_follow_up
    \/ end_turn

Spec == Init /\ [][Next]_vars

(***************************************************************************)
(* The chat store of DataManager.                                          *)
(***************************************************************************)
Roles == {"user", "assistant"}
Contents == {"hello", "ok"}
\* Readings of datetime.now().isoformat()
Timestamps == {"2025-01-01T10:00:00", "2025-01-01T10:00:01"}
\* Arguments of get_conversation_history: small limits and the default.
Limits == (0..(MaxHistory + 1)) \cup {10}

\* seq[start:] of Python: a negative start counts from the end, and the
\* result is clipped to the sequence.
py_slice_from(seq, start) ==
    LET n == Len(seq)
        from_end == IF start < 0 THEN start + n ELSE start
        first == IF from_end < 0 THEN 0 ELSE IF from_end > n THEN n ELSE from_end
    IN  SubSeq(seq, first + 1, n)

\* DataManager.save_chat_message(role, content), persona and risk_level
\* left at their default None.
save_chat_message ==
    /\ Len(chat_history) < MaxHistory
    /\ \E role \in Roles, content \in Contents, now \in Timestamps :
        chat_history' = Append(chat_history,
                               [id |-> Len(chat_history),
                                timestamp |-> now,
                                role |-> role,
                                content |-> content,
                                persona |-> PyNone,
                                risk_level |-> PyNone])
    /\ conversation' = NoConversation
    /\ UNCHANGED crisis_vars

\* DataManager.get_conversation_history(limit)
get_conversation_history(limit) ==
    LET recent_messages == py_slice_from(chat_history, 0 - limit)
    IN  [i \in 1..Len(recent_messages) |->
            [role |-> recent_messages[i].role, content |-> recent_messages[i].content]]

\* A caller reads the recent history.
read_conversation_history ==
    /\ \E limit \in Limits :
        conversation' = [limit |-> limit, result |-> get_conversation_history(limit)]
    /\ UNCHANGED <<chat_history, crisis_vars>>

HistoryNext ==
    \/ save_chat_message
    \/ read_conversation_history

\* The chat store by itself: it shares no state with the crisis pipeline.
HistorySpec == Init /\ [][HistoryNext]_vars

\* The synchronous steps of the program are taken once they can be; nothing
\* obliges the user to send a message or the oracle to answer.
LiveSpec ==
    /\ Spec
    /\ WF_vars(trigger_crisis_intervention)
    /\ WF_vars(end_turn)

(***************************************************************************)
(* Vocabulary of the properties.                                           *)
(***************************************************************************)
LevelNames == {"low", "moderate", "high", "critical"}

\* Low < Moderate < High < Critical
Rank == [low |-> 0, moderate |-> 1, high |-> 2, critical |-> 3]

HigherOf(a, b) == IF Rank[a] >= Rank[b] THEN a ELSE b

\* The level a label names, whatever its casing; "unrecognized" otherwise.
LevelNamed(label) ==
    CASE label \in {"LOW", "Low", "low"} -> "low"
      [] label \in {"MODERATE", "Moderate", "moderate"} -> "moderate"
      [] label \in {"HIGH", "High", "high"} -> "high"
      [] label \in {"CRITICAL", "Critical", "critical"} -> "critical"
      [] OTHER -> "unrecognized"

HasVerdict == verdict # NoVerdict

\* The label of the model signal inside the verdict.
VerdictLabel == verdict.ai_analysis.entries.risk_level.str

\* The oracle answered with the well-formed object that carries `label`.
OracleSaid(label) ==
    oracle = [kind |-> "response", text |-> PyStr(assessment_json(label))]

\* The oracle path failed: no client, the call raised, or the response does
\* not parse into an object with a recognized string label.
OracleFailed ==
    \/ oracle.kind \in {"no_client", "raised"}
    \/ /\ oracle.kind = "response"
       /\ LET parsed == json_loads(oracle.text)
          IN  \/ parsed.raised # "none"
              \/ parsed.value.type # "dict"
              \/ "risk_level" \notin DOMAIN parsed.value.entries
              \/ parsed.value.entries.risk_level.type # "str"
              \/ LevelNamed(parsed.value.entries.risk_level.str) = "unrecognized"

(***************************************************************************)
(* C1.  Fusion returns the maximum of the two levels.                      *)
(***************************************************************************)
\* C1: whenever fusion returns a verdict for a keyword level and an oracle
\* label that names one of the four levels in any casing, final_risk_level
\* is the higher of the two under Low < Moderate < High < Critical, and it is
\* Critical as soon as either of them is Critical.
C1_FusionIsMax ==
    (HasVerdict /\ LevelNamed(VerdictLabel) # "unrecognized") =>
        LET k == verdict.keyword_analysis.risk_level
            a == LevelNamed(VerdictLabel)
        IN  /\ k \in LevelNames
            /\ verdict.final_risk_level = HigherOf(k, a)
            /\ (k = "critical" \/ a = "critical") => verdict.final_risk_level = "critical"

\* A Low keyword signal fused with the oracle label "Critical" gives Critical.
C1_Witness ==
    /\ HasVerdict
    /\ verdict.keyword_analysis.risk_level = "low"
    /\ VerdictLabel = "Critical"
    /\ verdict.final_risk_level = "critical"

(***************************************************************************)
(* C2.  The labels of the instruction and the labels fusion recognizes.    *)
(***************************************************************************)
\* C2: a well-formed oracle response that carries the i-th label of the
\* instruction's vocabulary never yields a final level below the i-th level,
\* and the instruction's highest-risk label on a Low keyword signal yields
\* Critical with immediate_crisis true.
C2_InstructionLabelsRecognized ==
    \A i \in 1..Len(INSTRUCTION_RISK_LEVELS) :
        (HasVerdict /\ OracleSaid(INSTRUCTION_RISK_LEVELS[i])) =>
            /\ Rank[verdict.final_risk_level] >= i - 1
            /\ (i = Len(INSTRUCTION_RISK_LEVELS)
                    /\ verdict.keyword_analysis.risk_level = "low")
                => (verdict.final_risk_level = "critical" /\ verdict.immediate_crisis)

(***************************************************************************)
(* C3.  No exception leaves the pipeline.                                  *)
(***************************************************************************)
\* C3: whatever the text and whatever the oracle did, a finished
\* analyze_text_for_crisis has returned a verdict and raised nothing.
C3_AnalysisNeverRaises ==
    (pc \in {"verdict", "analysis_raised"}) => (HasVerdict /\ exc = "none")

(***************************************************************************)
(* C4.  With a failed oracle the verdict is the keyword signal's level.    *)
(***************************************************************************)
\* C4: in every verdict returned after the oracle path failed,
\* final_risk_level is the keyword signal's level: keyword-Critical gives
\* Critical with immediate_crisis, score 0 gives Low with no intervention.
C4_KeywordFloorOnOracleFailure ==
    (HasVerdict /\ OracleFailed) =>
        /\ verdict.final_risk_level = keyword_risk.risk_level
        /\ keyword_risk.risk_level = "critical" => verdict.immediate_crisis
        /\ keyword_risk.score = 0 =>
               (verdict.final_risk_level = "low" /\ ~verdict.requires_intervention)

(***************************************************************************)
(* C5.  The fallback model signal.                                         *)
(***************************************************************************)
FailureMarkers == {"AI client unavailable.", "Could not parse AI crisis response."}

\* C5: when the oracle path failed, the model signal handed to fusion is an
\* object with risk level Low, no detected keywords and an analysis text that
\* states the failure.
C5_FallbackSignalIsLow ==
    (OracleFailed /\ ai_analysis # NoAnalysis) =>
        /\ ai_analysis.type = "dict"
        /\ {"risk_level", "keywords_detected", "analysis"} \subseteq DOMAIN ai_analysis.entries
        /\ ai_analysis.entries.risk_level.type = "str"
        /\ LevelNamed(ai_analysis.entries.risk_level.str) = "low"
        /\ ai_analysis.entries.keywords_detected = PyList(<<>>)
        /\ ai_analysis.entries.analysis.type = "str"
        /\ ai_analysis.entries.analysis.str \in FailureMarkers

(***************************************************************************)
(* C6.  The audit log.                                                     *)
(***************************************************************************)
\* The record a verdict of this level calls for, as a sequence of 0 or 1.
RecordFor(level) ==
    CASE level = "critical" -> <<[kind |-> "immediate"]>>
      [] level = "high" -> <<[kind |-> "support"]>>
      [] OTHER -> <<>>

\* C6 as stated: every verdict passed to trigger_crisis_intervention adds
\* exactly its record (one for Critical, tagged "immediate"; one for High,
\* tagged "support"; none for Moderate and Low) at the end of the log, and no
\* other step changes the log.
C6_OneRecordPerIntervention ==
    [][IF pc = "verdict" /\ pc' # "verdict"
       THEN crisis_events' = crisis_events \o RecordFor(verdict.final_risk_level)
       ELSE crisis_events' = crisis_events]_vars

\* C6, amended: every verdict passed to trigger_crisis_intervention whose
\* append the store accepted adds exactly its record at the end of the log;
\* a verdict whose append the store refused adds none; no other step changes
\* the log, so records once appended are never changed or removed.
C6_OneRecordPerStoredIntervention ==
    [][IF pc = "verdict" /\ pc' = "intervened"
       THEN crisis_events' = crisis_events \o RecordFor(verdict.final_risk_level)
       ELSE crisis_events' = crisis_events]_vars

\* Three verdicts were passed: a Critical one, then a High one, both stored,
\* then a Moderate one; the log holds "immediate", "support" in that order.
C6_Witness ==
    /\ pc = "intervened"
    /\ n_evals = 3
    /\ verdict.final_risk_level = "moderate"
    /\ crisis_events = <<[kind |-> "immediate"], [kind |-> "support"]>>

(***************************************************************************)
(* C7.  A failing store does not block the intervention.                   *)
(***************************************************************************)
\* C7: when the store refuses the append, trigger_crisis_intervention has
\* still emitted the directive of the verdict's state, has returned
\* requires_intervention, and no exception has reached its caller.
C7_StoreFailureContained ==
    store_failed =>
        /\ directive # "none"
        /\ returned = <<verdict.requires_intervention>>
        /\ exc = "none"

(***************************************************************************)
(* C8.  The derived fields of the verdict.                                 *)
(***************************************************************************)
\* C8: in every verdict, requires_intervention is true exactly when the final
\* level is High or Critical and immediate_crisis exactly when it is Critical
\* (so immediate_crisis implies requires_intervention), and a value returned
\* by trigger_crisis_intervention is the verdict's requires_intervention.
C8_DerivedFields ==
    HasVerdict =>
        /\ verdict.requires_intervention = (verdict.final_risk_level \in {"high", "critical"})
        /\ verdict.immediate_crisis = (verdict.final_risk_level = "critical")
        /\ verdict.immediate_crisis => verdict.requires_intervention
        /\ pc = "intervened" => returned = <<verdict.requires_intervention>>

\* A High verdict went through the controller, which returned TRUE.
C8_Witness ==
    /\ pc = "intervened"
    /\ verdict.final_risk_level = "high"
    /\ verdict.requires_intervention
    /\ ~verdict.immediate_crisis
    /\ returned = <<TRUE>>

(***************************************************************************)
(* C9.  An unresponsive oracle.                                            *)
(***************************************************************************)
\* C9: a call that waits for the oracle does not wait forever: the analysis
\* leaves the wait even if the oracle never answers.
C9_OracleWaitEnds == (pc = "await_oracle") ~> (pc # "await_oracle")

(***************************************************************************)
(* C10.  The thresholds of the keyword scorer.                             *)
(***************************************************************************)
\* The band of scores the claim gives each level.
InBand(level, score) ==
    CASE level = "critical" -> score >= 10
      [] level = "high" -> 6 <= score /\ score < 10
      [] level = "moderate" -> 3 <= score /\ score < 6
      [] level = "low" -> score < 3
      [] OTHER -> FALSE

\* C10: the keyword signal's level is the one level whose band holds its
\* score, and so is the level of every smaller non-negative score, which is
\* never a higher level.
C10_ThresholdsPartition ==
    keyword_risk # NoSignal =>
        /\ keyword_risk.score \in Nat
        /\ {l \in LevelNames : InBand(l, keyword_risk.score)} = {keyword_risk.risk_level}
        /\ \A s \in 0..keyword_risk.score :
               LET level == risk_level_of_score(s)
               IN  /\ level \in LevelNames
                   /\ {l \in LevelNames : InBand(l, s)} = {level}
                   /\ Rank[level] <= Rank[keyword_risk.risk_level]

\* A message scored exactly 10, the lowest Critical score.
C10_Witness ==
    /\ keyword_risk # NoSignal
    /\ keyword_risk.score = 10
    /\ keyword_risk.risk_level = "critical"

(***************************************************************************)
(* C11.  What the keyword scorer records.                                  *)
(***************************************************************************)
\* The positions of the lowered message where the phrase starts.
Occurrences(keyword, lowered) ==
    {i \in 1..Len(lowered) :
        /\ i + Len(keyword) - 1 <= Len(lowered)
        /\ \A j \in 1..Len(keyword) : lowered[i + j - 1] = keyword[j]}

\* How many entries of the sequence equal e.
CountOf(e, entries) == Cardinality({i \in 1..Len(entries) : entries[i] = e})

\* The sum of the category weights over the entries.
RECURSIVE WeightOf(_)
WeightOf(entries) ==
    IF entries = <<>> THEN 0
    ELSE severity_weight(Head(entries)[2]) + WeightOf(Tail(entries))

\* The message under analysis and the keyword signal computed from it.
Scored == pc = "await_oracle" /\ keyword_risk # NoSignal

\* C11 as stated: detected_keywords holds each (keyword, category) pair once
\* per occurrence of the keyword in the message, and score is the sum of the
\* category weights over those entries.
C11_OneEntryPerOccurrence ==
    Scored =>
        /\ \A i \in 1..Len(scan_order(CRISIS_KEYWORDS)) :
               LET pair == scan_order(CRISIS_KEYWORDS)[i]
               IN  CountOf(pair, keyword_risk.detected_keywords)
                       = Cardinality(Occurrences(pair[1], text_lower(text)))
        /\ keyword_risk.score = WeightOf(keyword_risk.detected_keywords)

\* C11, amended: detected_keywords holds, in the lexicon's scan order, each
\* (keyword, category) pair whose keyword occurs at least once in the lowered
\* message, once however often it occurs, and score is the sum of the
\* category weights over those entries.
C11_OneEntryPerMatchedKeyword ==
    Scored =>
        /\ keyword_risk.detected_keywords =
               SelectSeq(scan_order(CRISIS_KEYWORDS),
                         LAMBDA pair : Occurrences(pair[1], text_lower(text)) # {})
        /\ keyword_risk.score = WeightOf(keyword_risk.detected_keywords)

\* "sad Sad cutting": "sad" occurs twice and is recorded once, after
\* "cutting", which the lexicon lists first; the score is 6 + 1.
C11_Witness ==
    /\ Scored
    /\ text = <<"sad", "Sad", "cutting">>
    /\ keyword_risk.detected_keywords =
           << << <<"cutting">>, "self_harm" >>, << <<"sad">>, "distress" >> >>
    /\ keyword_risk.score = 7

(***************************************************************************)
(* C12.  The follow-up message selector is total.                          *)
(***************************************************************************)
\* C12: every argument gets a message: the levels critical, high and
\* moderate get their own three distinct messages, and every other argument
\* (low, another string, a value that is no string) gets the default one.
C12_FollowUpTotal ==
    follow_up # NoFollowUp =>
        LET arg == follow_up.risk_level
            message == follow_up.message
        IN  /\ Cardinality({FOLLOW_UP_CRITICAL, FOLLOW_UP_HIGH, FOLLOW_UP_MODERATE}) = 3
            /\ arg = PyStr("critical") => message = FOLLOW_UP_CRITICAL
            /\ arg = PyStr("high") => message = FOLLOW_UP_HIGH
            /\ arg = PyStr("moderate") => message = FOLLOW_UP_MODERATE
            /\ arg \notin {PyStr("critical"), PyStr("high"), PyStr("moderate")}
                   => message = FOLLOW_UP_DEFAULT

\* The moderate message was selected for the level moderate.
C12_Witness ==
    /\ follow_up # NoFollowUp
    /\ follow_up.risk_level = PyStr("moderate")
    /\ follow_up.message = FOLLOW_UP_MODERATE

(***************************************************************************)
(* C13.  The recent conversation history.                                  *)
(***************************************************************************)
Smaller(a, b) == IF a <= b THEN a ELSE b

\* The last k stored messages, in insertion order, as role and content.
LastMessages(k) ==
    LET n == Len(chat_history)
    IN  [i \in 1..k |-> [role |-> chat_history[n - k + i].role,
                         content |-> chat_history[n - k + i].content]]

\* C13: with n messages stored, get_conversation_history(limit) has returned
\* the last min(limit, n) of them in insertion order, reduced to role and
\* content (none for limit 0), and the stored history is as it was.
C13_LastLimitMessages ==
    conversation # NoConversation =>
        conversation.result = LastMessages(Smaller(conversation.limit, Len(chat_history)))

====
